---------------------------- MODULE Spec2Model ----------------------------
(***************************************************************************)
(* Lyra (src/src/popup.js): a browser popup that adjusts gain, pan, mono   *)
(* and channel flip of the media elements of the active tab, with a global *)
(* gain and per-domain gain overrides kept in browser.storage.sync.        *)
(*                                                                         *)
(* The model has two sides.  The popup side is the module-level state of   *)
(* popup.js (globalSettings, currentUrl, frameMap, the controls it reads)  *)
(* and its handlers.  The page side is what the injected scripts touch:    *)
(* the media elements, their data-x-soundfixer-id attribute and the        *)
(* xSoundFixer* properties holding each element's audio graph.  Requests   *)
(* made with browser.tabs.executeScript travel in `pending` and run in the *)
(* page one at a time.                                                     *)
(*                                                                         *)
(* Numbers are JavaScript doubles written in tenths: D(15) is 1.5.  The    *)
(* value of an AudioParam is a single-precision float, so a number carries *)
(* a flag telling whether it is the double itself or the float nearest to  *)
(* it; two numbers are the same number iff the records are equal.          *)
(***************************************************************************)
EXTENDS Integers, Sequences, FiniteSets, TLC

\* ------------------------------------------------------------------ values

\* A JavaScript value that may be undefined: <<>> is undefined, <<x>> is x.
Undefined == <<>>
Some(x) == <<x>>

\* The double v/10.
D(v) == [tenths |-> v, f32 |-> FALSE]

\* The float nearest to a number (an AudioParam stores a float): v/10 is a
\* float exactly when it is a multiple of 1/2, within the magnitudes used here.
ToFloat32(x) == [tenths |-> x.tenths, f32 |-> x.f32 \/ x.tenths % 5 # 0]

\* NaN, and the null that JSON.stringify writes for it.
NaN == [nan |-> TRUE]
Null == [null |-> TRUE]

\* JavaScript truthiness of a number (a || b picks b when a is 0).
Truthy(x) == x.tenths # 0

\* The gains the gain controls of the popup deliver: 0 (silence) and 2.
Gains == {D(0), D(20)}

\* ------------------------------------------------------------------- page

Frames == {0, 1}
Elems == {"v1", "a1", "v2"}

\* The frame whose document holds the element, and its tag name.
frameOf(e) == IF e = "v2" THEN 1 ELSE 0
tagName(e) == IF e = "a1" THEN "audio" ELSE "video"

\* The elements in document order (the order of querySelectorAll).
DocumentOrder == <<"v1", "a1", "v2">>

NoId == "none"
\* The identifier Math.random().toString(36).substr(2, 10) yields for an
\* element: a fixed injection (collisions have negligible probability).
RandomId(e) == "id-" \o e
Ids == {RandomId(e) : e \in Elems}

\* The URLs of the active tab, and new URL(url).hostname for each one that
\* parses ("" does not: the tab's URL may be withheld from the extension).
ParseableUrls == {"https://youtube.com/watch", "https://example.com/", "http://unknown/"}
TabUrls == ParseableUrls \cup {""}
hostname(url) ==
    CASE url = "https://youtube.com/watch" -> "youtube.com"
      [] url = "https://example.com/" -> "example.com"
      [] url = "http://unknown/" -> "unknown"
Domains == {"youtube.com", "example.com", "unknown"}

\* ------------------------------------------------------------- variables

VARIABLES
    \* the page and the browser
    tabUrl,          \* URL of the active tab
    storage,         \* browser.storage.sync: the lyra_settings record, or NoRecord
    openFrames,      \* the frames that accept an injected script
    storeReads,      \* whether storage.sync.get answers (it throws otherwise)
    hwChannels,      \* destination.channelCount of a new AudioContext
    present,         \* the media elements in their documents
    playing,         \* the elements the discovery scan finds playing
    attr,            \* data-x-soundfixer-id of each element
    el,              \* the xSoundFixer* properties of each element
    built,           \* how many times each element's graph was constructed
    \* the popup
    pc,              \* where initializePopup stands
    globalSettings,
    currentUrl,
    frameMap,
    domainGainSlider,  \* value of #domain-gain
    allGain,           \* value of "#all-elements .element-gain", if built
    elementGain,       \* value of each element's .element-gain, in frameMap order
    effectiveGain,     \* const effectiveGain of initializePopup, once computed
    saving,            \* global gain handlers awaiting saveGlobalSettings
    pending,           \* executeScript requests not yet run in the page
    \* history
    hist             \* the last operations, newest last

pageVars == <<tabUrl, storage, openFrames, storeReads, hwChannels, present, playing, attr, el, built>>
popupVars == <<pc, globalSettings, currentUrl, frameMap, domainGainSlider, allGain, elementGain,
              effectiveGain, saving, pending>>
vars == <<pageVars, popupVars, hist>>

\* The history keeps the last two operations.
Remember(h, op) == IF Len(h) < 2 THEN Append(h, op) ELSE Append(Tail(h), op)
Last(h) == h[Len(h)]

\* --------------------------------------------------------------- settings

\* storage.sync.get answers {} when nothing was saved.
NoRecord == <<>>

\* let globalSettings = { globalGain: 1.5, domainOverrides: {} }
DefaultGlobalGain == D(15)
NoOverrides == [d \in {} |-> D(0)]
DefaultSettings == [globalGain |-> DefaultGlobalGain, domainOverrides |-> NoOverrides]

\* An assignment that leaves the object with the one key.
PutAlone(obj, key, value) == [k \in {key} |-> value]

\* obj[key] = value
Put(obj, key, value) == [k \in DOMAIN obj \cup {key} |-> IF k = key THEN value ELSE obj[k]]

\* A delete that removes nothing.
DeleteNothing(obj, key) == obj

\* A delete that empties the object when the key is missing.
DeleteOrEmpty(obj, key) ==
    IF key \in DOMAIN obj THEN [k \in DOMAIN obj \ {key} |-> obj[k]] ELSE [k \in {} |-> obj[k]]

\* delete obj[key]
Delete(obj, key) == [k \in DOMAIN obj \ {key} |-> obj[k]]

getDomain(url) == IF url \in ParseableUrls THEN hostname(url) ELSE "unknown"

\* domainOverrides[domain] || globalGain: a missing key reads undefined, and
\* undefined and 0 both give way to globalGain.
EffectiveGainFor(settings, domain) ==
    IF domain \in DOMAIN settings.domainOverrides /\ Truthy(settings.domainOverrides[domain])
    THEN settings.domainOverrides[domain]
    ELSE settings.globalGain

getEffectiveGainOf(settings, url) == EffectiveGainFor(settings, getDomain(url))

getEffectiveGain == getEffectiveGainOf(globalSettings, currentUrl)

\* A load whose fallback is a gain of 1, not the in-memory defaults.
loadGlobalSettingsUnity(stored, current) ==
    IF stored # NoRecord THEN stored[1] ELSE [globalGain |-> D(10), domainOverrides |-> NoOverrides]

\* What loadGlobalSettings resolves to.
loadGlobalSettings(stored, current) == IF stored # NoRecord THEN stored[1] ELSE current


\* ------------------------------------------------------------- discovery

RECURSIVE Flatten(_)
Flatten(ss) == IF ss = <<>> THEN <<>> ELSE Head(ss) \o Flatten(Tail(ss))

\* document.querySelectorAll('video, audio') in the document of frame f.
MediaIn(f, inDom) == SelectSeq(DocumentOrder, LAMBDA e : e \in inDom /\ frameOf(e) = f)

\* Every media element of the page, in document order.
MediaInPage == SelectSeq(DocumentOrder, LAMBDA e : e \in present)

\* A scan that gives every element a new identifier, whatever it carries.
ScannedIdAnew(e, a) == IF a[e] = NoId THEN RandomId(e) ELSE "re-" \o a[e]

\* The attribute of an element after the scan: one is assigned only when missing.
ScannedId(e, a) == IF a[e] = NoId THEN RandomId(e) ELSE a[e]

\* A scan that reports no snapshot.
SnapshotOfNothing(g) == Undefined

\* el.xSoundFixerSettings
SnapshotOf(g) == IF g.ctx THEN Some(g.settings) ELSE Undefined

\* A discovery script that reports no element.
DiscoveryResultNothing(f) == <<>>

\* The Map the discovery script returns for frame f.
DiscoveryResult(f) ==
    LET media == MediaIn(f, present) IN
    [i \in 1..Len(media) |->
        [elid |-> ScannedId(media[i], attr),
         type |-> tagName(media[i]),
         isPlaying |-> media[i] \in playing,
         settings |-> SnapshotOf(el[media[i]])]]

\* The orders in which the frames of a set can answer.
Orders(S) == {o \in [1..Cardinality(S) -> S] : \A i, j \in DOMAIN o : i # j => o[i] # o[j]}

\* ------------------------------------------------------- requests issued

\* How many executeScript requests may be waiting.
MaxPending == 4

\* A loop that stops after the first element.
RequestsToFirst(fm, newSettings) ==
    LET els == Flatten([i \in 1..Len(fm) |->
                   [j \in 1..Len(fm[i].els) |->
                       [fid |-> fm[i].fid, elid |-> fm[i].els[j].elid, newSettings |-> newSettings]]])
    IN  IF els = <<>> THEN <<>> ELSE <<els[1]>>

\* The requests of: for (const [fid, els] of frameMap) for (const [elid, el] of els)
\*                      applySettings(fid, elid, newSettings)
RequestsToAll(fm, newSettings) ==
    Flatten([i \in 1..Len(fm) |->
        [j \in 1..Len(fm[i].els) |->
            [fid |-> fm[i].fid, elid |-> fm[i].els[j].elid, newSettings |-> newSettings]]])

elCount(fm) == Len(Flatten([i \in 1..Len(fm) |-> fm[i].els]))

\* egain.value = gainValue on the control of every element.
ShowGain(controls, gainValue) == [k \in 1..Len(controls) |-> gainValue]

\* gain.value = settings.gain || 1 on the control built for each element,
\* where settings is the snapshot the discovery returned, or {}.
Prepopulated(fm) ==
    LET els == Flatten([i \in 1..Len(fm) |-> fm[i].els]) IN
    [k \in 1..Len(els) |->
        IF els[k].settings # Undefined /\ Truthy(els[k].settings[1].gain)
        THEN els[k].settings[1].gain ELSE D(10)]

\* A broadcast that reaches no element and no control.
applyGainToNoElement(gainValue) == UNCHANGED <<pending, elementGain, allGain>>

\* applyGainToAllElements(gainValue): one request per tracked element, and the
\* "All elements" slider, if there is one, shows the value.
applyGainToAllElements(gainValue) ==
    /\ Len(pending) + elCount(frameMap) <= MaxPending
    /\ pending' = pending \o RequestsToAll(frameMap, [gain |-> gainValue])
    /\ elementGain' = ShowGain(elementGain, gainValue)
    /\ allGain' = IF allGain # Undefined THEN Some(gainValue) ELSE allGain

\* ------------------------------------------------------- the audio graph

\* a.connect(b), and split.connect(merge, output, input).  Connecting twice
\* what is connected changes nothing: the connections are a set.
Conn(a, b) == <<a, 0, b, 0>>
ConnAt(a, output, b, input) == <<a, output, b, input>>

\* A disconnect that removes nothing.
DisconnectNothing(conns, node) == conns

\* node.disconnect(): every connection leaving the node goes.
Disconnect(conns, node) == {c \in conns : c[1] # node}

NoGraph == [ctx |-> FALSE]

\* source -> gain -> pan -> destination
InitialConns == {Conn("source", "gain"), Conn("gain", "pan"), Conn("pan", "destination")}

\* The guard that forgets the flag: the graph is constructed on every call.
NeedsGraphAlways(g) == TRUE

\* if (!el.xSoundFixerContext)
NeedsGraph(g) == ~g.ctx

\* The initialization block: a new context and nodes (numbered by `serial`),
\* wired source -> gain -> pan -> destination, and the destination's channel
\* count recorded.  A new GainNode has gain 1, a new StereoPannerNode pan 0.
NewGraph(channels, serial) ==
    [ctx |-> TRUE,
     ctxId |-> serial,
     gain |-> D(10),
     pan |-> D(0),
     conns |-> InitialConns,
     channelCount |-> channels,
     originalChannels |-> channels,
     flipped |-> Undefined,
     settings |-> Undefined]

EnsureGraph(g, channels, serial) == IF NeedsGraph(g) THEN NewGraph(channels, serial) ELSE g

\* ${JSON.stringify(newSettings)} read back by the page: a NaN becomes null.
JsonStringify(s) ==
    [f \in DOMAIN s |-> IF f \in {"gain", "pan"} /\ s[f] = NaN THEN Null ELSE s[f]]

\* What an AudioParam holds after `value = v`: null converts to 0, a number to
\* the float nearest to it.
AudioParamValue(v) == IF v = Null THEN D(0) ELSE ToFloat32(v)

\* if ('gain' in newSettings) el.xSoundFixerGain.gain.value = newSettings.gain
SetGain(g, s) == IF "gain" \in DOMAIN s THEN [g EXCEPT !.gain = AudioParamValue(s.gain)] ELSE g

\* if ('pan' in newSettings) el.xSoundFixerPan.pan.value = newSettings.pan
SetPan(g, s) == IF "pan" \in DOMAIN s THEN [g EXCEPT !.pan = AudioParamValue(s.pan)] ELSE g

\* Leaving mono puts back the count in use, not the recorded one.
MonoChannelCountCurrent(g, mono) == IF mono THEN 1 ELSE g.channelCount

\* newSettings.mono ? 1 : el.xSoundFixerOriginalChannels
MonoChannelCount(g, mono) == IF mono THEN 1 ELSE g.originalChannels

SetMono(g, s) ==
    IF "mono" \in DOMAIN s THEN [g EXCEPT !.channelCount = MonoChannelCount(g, s.mono)] ELSE g

\* The flipped routing with the channels not crossed.
FlippedRoutingStraight ==
    {Conn("pan", "split"), ConnAt("split", 0, "merge", 0),
     ConnAt("split", 1, "merge", 1), Conn("merge", "destination")}

\* pan -> split, split 0 -> merge 1, split 1 -> merge 0, merge -> destination
FlippedRouting ==
    {Conn("pan", "split"), ConnAt("split", 0, "merge", 1),
     ConnAt("split", 1, "merge", 0), Conn("merge", "destination")}

\* pan -> destination
DirectRouting == {Conn("pan", "destination")}

\* A flip block that leaves out merge.disconnect().
SetFlipKeepingMerge(g, s) ==
    IF "flip" \in DOMAIN s
    THEN [g EXCEPT !.flipped = Some(s.flip),
                   !.conns = Disconnect(@, "pan")
                             \cup (IF s.flip THEN FlippedRouting ELSE DirectRouting)]
    ELSE g

\* The flip block: the flag, merge.disconnect(), pan.disconnect(), then the
\* routing the flag asks for.
SetFlip(g, s) ==
    IF "flip" \in DOMAIN s
    THEN [g EXCEPT !.flipped = Some(s.flip),
                   !.conns = Disconnect(Disconnect(@, "merge"), "pan")
                             \cup (IF s.flip THEN FlippedRouting ELSE DirectRouting)]
    ELSE g

\* el.xSoundFixerSettings = { gain, pan, mono, flip } read back from the nodes.
RecordSnapshot(g) ==
    [g EXCEPT !.settings = [gain |-> g.gain,
                            pan |-> g.pan,
                            mono |-> g.channelCount = 1,
                            flip |-> g.flipped]]

\* The script of applySettings, run on the element it found.
ApplyScript(g, s, channels, serial) ==
    CHOOSE after \in
        {RecordSnapshot(SetFlip(SetMono(SetPan(SetGain(EnsureGraph(g, channels, serial),
                                                       newSettings), newSettings), newSettings), newSettings))
            : newSettings \in {JsonStringify(s)}} : TRUE

\* document.querySelector('[data-x-soundfixer-id="..."]') in frame f finds the
\* first media element in the document carrying the identifier.
Matching(f, elid) ==
    SelectSeq(DocumentOrder, LAMBDA e : e \in present /\ frameOf(e) = f /\ attr[e] = elid)

\* A query that, finding no match, falls back to the first media element.
querySelectorOrFirst(f, elid) ==
    LET m == Matching(f, elid) IN
    IF m # <<>> THEN Some(m[1])
    ELSE IF MediaInPage # <<>> THEN Some(MediaInPage[1]) ELSE Undefined

querySelector(f, elid) ==
    LET m == Matching(f, elid) IN IF m = <<>> THEN Undefined ELSE Some(m[1])

\* Contexts numbered across the elements of the page.
ContextSerialShared(b, e) == Cardinality({x \in Elems : b[x] > 0}) + 1

\* new AudioContext(): the context constructed for an element is its own, the
\* next one of that element.
ContextSerial(b, e) == b[e] + 1

\* A script that runs on every media element of the frame of e.
ScriptRunWholeFrame(page, e, s) ==
    [el |-> [x \in Elems |->
                IF frameOf(x) = frameOf(e)
                THEN ApplyScript(page.el[x], s, hwChannels, ContextSerial(page.built, x))
                ELSE page.el[x]],
     built |-> [x \in Elems |->
                IF frameOf(x) = frameOf(e) /\ NeedsGraph(page.el[x])
                THEN page.built[x] + 1 ELSE page.built[x]]]

\* The properties of the elements after the script ran on element e.
ScriptRun(page, e, s) ==
    [el |-> [page.el EXCEPT
                ![e] = ApplyScript(page.el[e], s, hwChannels, ContextSerial(page.built, e))],
     built |-> [page.built EXCEPT ![e] = IF NeedsGraph(page.el[e]) THEN @ + 1 ELSE @]]

\* One request run in the page.  With no element found the script throws
\* (el is null) and the promise of executeScript is rejected.
RunRequest(req) ==
    LET found == querySelector(req.fid, req.elid) IN
    IF found = Undefined
    THEN /\ hist' = Remember(hist, [kind |-> "apply", req |-> req, outcome |-> "rejected"])
         /\ UNCHANGED <<el, built>>
    ELSE LET after == ScriptRun([el |-> el, built |-> built], found[1], req.newSettings) IN
         /\ el' = after.el
         /\ built' = after.built
         /\ hist' = Remember(hist, [kind |-> "apply", req |-> req, outcome |-> "fulfilled"])

\* ------------------------------------------------------------------ Init

\* What a gain control of popup.html shows before the script sets it: the
\* default gain of SoundSettings, 1.
UnsetGainControl == D(10)

\* No handler is awaiting a write: no storage.sync.set call is in flight, no
\* continuation is waiting to run, and the global gain was not changed yet.
NoSaving == [writes |-> <<>>, settled |-> 0, last |-> Undefined]

InitWith(urls, stores, reads, pages, opens, channels) ==
    /\ tabUrl \in urls
    /\ storage \in stores
    /\ storeReads \in reads
    /\ present \in pages
    /\ openFrames \in opens
    /\ hwChannels \in channels
    /\ playing = {}
    /\ attr = [e \in Elems |-> NoId]
    /\ el = [e \in Elems |-> NoGraph]
    /\ built = [e \in Elems |-> 0]
    /\ pc = "loading"
    /\ globalSettings = DefaultSettings
    /\ currentUrl = ""
    /\ frameMap = <<>>
    /\ domainGainSlider = UnsetGainControl
    /\ allGain = Undefined
    /\ elementGain = <<>>
    /\ effectiveGain = Undefined
    /\ saving = NoSaving
    /\ pending = <<>>
    /\ hist = <<>>

\* ------------------------------------------------------- initializePopup

\* globalSettings = await loadGlobalSettings(); initializeGlobalSettings()
\* A failing read is caught and leaves the defaults.
LoadSettings ==
    /\ pc = "loading"
    /\ globalSettings' = loadGlobalSettings(IF storeReads THEN storage ELSE NoRecord, globalSettings)
    /\ pc' = "querying"
    /\ UNCHANGED <<pageVars, currentUrl, frameMap, effectiveGain, saving, domainGainSlider, allGain, elementGain, pending, hist>>

\* updateGlobalSettingsUI(): the domain slider shows the effective gain.
updateGlobalSettingsUI(settings, url) == domainGainSlider' = getEffectiveGainOf(settings, url)

\* tabs = await browser.tabs.query(...); currentUrl = tabs[0].url; updateGlobalSettingsUI()
QueryTab ==
    /\ pc = "querying"
    /\ currentUrl' = tabUrl
    /\ updateGlobalSettingsUI(globalSettings, tabUrl)
    /\ pc' = "discovering"
    /\ UNCHANGED <<pageVars, globalSettings, frameMap, effectiveGain, saving, allGain, elementGain, pending, hist>>

\* The discovery scripts of all frames, then the controls and the first apply.
\* A frame that rejects the script is logged and left out.
Discover ==
    /\ pc = "discovering"
    /\ \E order \in Orders(Frames \cap openFrames) :
         LET fm == [i \in DOMAIN order |-> [fid |-> order[i], els |-> DiscoveryResult(order[i])]]
             gainNow == getEffectiveGain
         IN  /\ Len(pending) + elCount(fm) <= MaxPending
             /\ frameMap' = fm
             /\ effectiveGain' = Some(gainNow)
             /\ attr' = [e \in Elems |->
                            IF e \in present /\ frameOf(e) \in openFrames
                            THEN ScannedId(e, attr) ELSE attr[e]]
             /\ IF elCount(fm) = 0
                THEN /\ elementGain' = Prepopulated(fm)
                     /\ UNCHANGED <<allGain, pending>>
                ELSE /\ allGain' = Some(gainNow)
                     /\ elementGain' = ShowGain(Prepopulated(fm), gainNow)
                     /\ pending' = pending \o RequestsToAll(fm, [gain |-> gainNow])
    /\ pc' = "ready"
    /\ UNCHANGED <<tabUrl, storage, openFrames, storeReads, hwChannels, present, playing, el, built>>
    /\ UNCHANGED <<globalSettings, currentUrl, domainGainSlider, saving, hist>>

\* ---------------------------------------------- initializeGlobalSettings

\* await saveGlobalSettings(settings): the record reaches the store unless the
\* write fails; the in-memory object was already changed by the caller.
saveGlobalSettings(settings) == \E ok \in BOOLEAN : storage' = IF ok THEN Some(settings) ELSE storage

\* A global gain handler that applies the gain whatever the overrides.
GlobalGainInputAlwaysApplying(v) ==
    /\ pc # "loading"
    /\ globalSettings' = [globalSettings EXCEPT !.globalGain = v]
    /\ saveGlobalSettings([globalSettings EXCEPT !.globalGain = v])
    /\ applyGainToAllElements(v)
    /\ hist' = Remember(hist, [kind |-> "globalGain"])
    /\ UNCHANGED <<tabUrl, openFrames, storeReads, hwChannels, present, playing, attr, el, built>>
    /\ UNCHANGED <<pc, currentUrl, frameMap, effectiveGain, saving, domainGainSlider>>

\* #global-gain / #global-gain-num input.
GlobalGainInput(v) ==
    /\ pc # "loading"
    /\ LET settings == [globalSettings EXCEPT !.globalGain = v] IN
        /\ globalSettings' = settings
        /\ saveGlobalSettings(settings)
        /\ IF getDomain(currentUrl) \notin DOMAIN settings.domainOverrides
           THEN applyGainToAllElements(v)
           ELSE UNCHANGED <<allGain, elementGain, pending>>
    /\ hist' = Remember(hist, [kind |-> "globalGain"])
    /\ UNCHANGED <<tabUrl, openFrames, storeReads, hwChannels, present, playing, attr, el, built>>
    /\ UNCHANGED <<pc, currentUrl, frameMap, effectiveGain, saving, domainGainSlider>>

\* A domain gain handler that stores the value as the global gain.
DomainGainInputStoring(v) ==
    /\ pc # "loading"
    /\ domainGainSlider' = v
    /\ globalSettings' = [globalSettings EXCEPT !.globalGain = v]
    /\ applyGainToAllElements(v)
    /\ hist' = Remember(hist, [kind |-> "domainGain"])
    /\ UNCHANGED <<pageVars, pc, currentUrl, frameMap, effectiveGain, saving>>

\* #domain-gain / #domain-gain-num input.
DomainGainInput(v) ==
    /\ pc # "loading"
    /\ domainGainSlider' = v
    /\ applyGainToAllElements(v)
    /\ hist' = Remember(hist, [kind |-> "domainGain"])
    /\ UNCHANGED <<pageVars, pc, globalSettings, currentUrl, frameMap, effectiveGain, saving>>

\* #save-domain-override click.
SaveDomainOverride ==
    /\ pc # "loading"
    /\ LET domain == getDomain(currentUrl)
           gainValue == domainGainSlider
           settings == [globalSettings EXCEPT !.domainOverrides = Put(@, domain, gainValue)]
       IN  /\ globalSettings' = settings
           /\ saveGlobalSettings(settings)
           /\ updateGlobalSettingsUI(settings, currentUrl)
           /\ hist' = Remember(hist, [kind |-> "save", domain |-> domain, gain |-> gainValue,
                                       had |-> domain \in DOMAIN globalSettings.domainOverrides])
    /\ UNCHANGED <<tabUrl, openFrames, storeReads, hwChannels, present, playing, attr, el, built>>
    /\ UNCHANGED <<pc, currentUrl, frameMap, effectiveGain, saving, allGain, elementGain, pending>>

\* #clear-domain-override click.
ClearDomainOverride ==
    /\ pc # "loading"
    /\ LET domain == getDomain(currentUrl)
           settings == [globalSettings EXCEPT !.domainOverrides = Delete(@, domain)]
       IN  /\ globalSettings' = settings
           /\ saveGlobalSettings(settings)
           /\ updateGlobalSettingsUI(settings, currentUrl)
           /\ applyGainToAllElements(settings.globalGain)
           /\ hist' = Remember(hist, [kind |-> "clear", domain |-> domain])
    /\ UNCHANGED <<tabUrl, openFrames, storeReads, hwChannels, present, playing, attr, el, built>>
    /\ UNCHANGED <<pc, currentUrl, frameMap, effectiveGain, saving>>

\* The most handlers that await their write at once.
MaxSaving == 2

\* #global-gain input, up to the await: globalSettings.globalGain is assigned
\* and saveGlobalSettings calls storage.sync.set with the settings as they are
\* at the call.
GlobalGainChanged(v) ==
    /\ pc # "loading"
    /\ Len(saving.writes) + saving.settled < MaxSaving
    /\ LET settings == [globalSettings EXCEPT !.globalGain = v] IN
        /\ globalSettings' = settings
        /\ saving' = [saving EXCEPT !.writes = Append(@, settings), !.last = Some(v)]
    /\ hist' = Remember(hist, [kind |-> "globalGainInput", gain |-> v])
    /\ UNCHANGED <<pageVars, pc, currentUrl, frameMap, effectiveGain>>
    /\ UNCHANGED <<domainGainSlider, allGain, elementGain, pending>>

\* A store in which the newest of the writes in flight lands first.
StoreWriteNewestFirst(ok) ==
    /\ saving.writes # <<>>
    /\ storage' = IF ok THEN Some(saving.writes[Len(saving.writes)]) ELSE storage
    /\ saving' = [saving EXCEPT !.writes = SubSeq(@, 1, Len(@) - 1), !.settled = @ + 1]
    /\ UNCHANGED <<tabUrl, openFrames, storeReads, hwChannels, present, playing, attr, el, built>>
    /\ UNCHANGED <<pc, globalSettings, currentUrl, frameMap, effectiveGain>>
    /\ UNCHANGED <<domainGainSlider, allGain, elementGain, pending, hist>>

\* browser.storage.sync.set settles: the oldest write in flight reaches the
\* store (last write wins) or is rejected, and the promise its handler awaits
\* is settled.
StoreWrite(ok) ==
    /\ saving.writes # <<>>
    /\ storage' = IF ok THEN Some(Head(saving.writes)) ELSE storage
    /\ saving' = [saving EXCEPT !.writes = Tail(@), !.settled = @ + 1]
    /\ UNCHANGED <<tabUrl, openFrames, storeReads, hwChannels, present, playing, attr, el, built>>
    /\ UNCHANGED <<pc, globalSettings, currentUrl, frameMap, effectiveGain>>
    /\ UNCHANGED <<domainGainSlider, allGain, elementGain, pending, hist>>

\* #global-gain input, after the await: globalSettings = settings assigns the
\* object to itself, and globalSettings.globalGain as it is now is applied
\* unless the domain has an override.
GlobalGainSaved ==
    /\ saving.settled > 0
    /\ saving' = [saving EXCEPT !.settled = @ - 1]
    /\ IF getDomain(currentUrl) \notin DOMAIN globalSettings.domainOverrides
       THEN applyGainToAllElements(globalSettings.globalGain)
       ELSE UNCHANGED <<allGain, elementGain, pending>>
    /\ hist' = Remember(hist, [kind |-> "globalGainSaved"])
    /\ UNCHANGED <<pageVars, pc, globalSettings, currentUrl, frameMap, effectiveGain, domainGainSlider>>

\* ------------------------------------------------ the page and the calls

\* A run in which a rejected request takes the waiting ones down with it.
ExecuteScriptAbortingBatch ==
    /\ pending # <<>>
    /\ RunRequest(Head(pending))
    /\ pending' = IF querySelector(Head(pending).fid, Head(pending).elid) = Undefined
                  THEN <<>> ELSE Tail(pending)
    /\ UNCHANGED <<tabUrl, storage, openFrames, storeReads, hwChannels, present, playing, attr>>
    /\ UNCHANGED <<pc, globalSettings, currentUrl, frameMap, effectiveGain, saving, domainGainSlider, allGain, elementGain>>

\* A run that takes the newest request first.
ExecuteScriptNewestFirst ==
    /\ pending # <<>>
    /\ RunRequest(pending[Len(pending)])
    /\ pending' = SubSeq(pending, 1, Len(pending) - 1)
    /\ UNCHANGED <<tabUrl, storage, openFrames, storeReads, hwChannels, present, playing, attr>>
    /\ UNCHANGED <<pc, globalSettings, currentUrl, frameMap, effectiveGain, saving, domainGainSlider, allGain, elementGain>>

\* The head request runs in the page.  The requests of one popup reach the
\* tab in the order issued, and a script runs to its end before the next.
ExecuteScript ==
    /\ pending # <<>>
    /\ RunRequest(Head(pending))
    /\ pending' = Tail(pending)
    /\ UNCHANGED <<tabUrl, storage, openFrames, storeReads, hwChannels, present, playing, attr>>
    /\ UNCHANGED <<pc, globalSettings, currentUrl, frameMap, effectiveGain, saving, domainGainSlider, allGain, elementGain>>

\* A media element leaves its document.
RemoveElement(e) ==
    /\ e \in present
    /\ present' = present \ {e}
    /\ UNCHANGED <<tabUrl, storage, openFrames, storeReads, hwChannels, playing, attr, el, built>>
    /\ UNCHANGED <<popupVars, hist>>

\* The (frame, identifier) pairs of frameMap.
Tracked ==
    UNION {{<<frameMap[i].fid, frameMap[i].els[j].elid>> : j \in 1..Len(frameMap[i].els)}
           : i \in 1..Len(frameMap)}

\* applySettings(fid, elid, newSettings) for a tracked element and settings
\* from a set, and its script run in the page, with no other request waiting.
ApplySettings(settings) ==
    /\ pc = "ready"
    /\ pending = <<>>
    /\ \E k \in 1..elCount(frameMap) : \E newSettings \in settings :
         LET t == RequestsToAll(frameMap, newSettings)[k] IN
         /\ RunRequest(t)
         /\ elementGain' = IF "gain" \in DOMAIN newSettings
                            THEN [elementGain EXCEPT ![k] = newSettings.gain]
                            ELSE elementGain
    /\ UNCHANGED <<tabUrl, storage, openFrames, storeReads, hwChannels, present, playing, attr>>
    /\ UNCHANGED <<pc, globalSettings, currentUrl, frameMap, effectiveGain, saving, domainGainSlider, allGain, pending>>

\* The popup is closed and opened again on the same page: popup.js starts
\* anew, the page and the requests already sent to the tab stay.  The writes
\* it had issued have reached the store; continuations not yet run are lost.
Reopen ==
    /\ pc = "ready"
    /\ pc' = "loading"
    /\ globalSettings' = DefaultSettings
    /\ currentUrl' = ""
    /\ frameMap' = <<>>
    /\ domainGainSlider' = UnsetGainControl
    /\ allGain' = Undefined
    /\ elementGain' = <<>>
    /\ effectiveGain' = Undefined
    /\ saving.writes = <<>>
    /\ saving' = NoSaving
    /\ UNCHANGED <<pageVars, pending, hist>>

\* applyGain(value) of the "All elements" gain controls.
AllGainInput(v) ==
    /\ pc = "ready"
    /\ allGain # Undefined
    /\ Len(pending) + elCount(frameMap) <= MaxPending
    /\ pending' = pending \o RequestsToAll(frameMap, [gain |-> v])
    /\ elementGain' = ShowGain(elementGain, v)
    /\ allGain' = Some(v)
    /\ hist' = Remember(hist, [kind |-> "allGain"])
    /\ UNCHANGED <<pageVars, pc, globalSettings, currentUrl, frameMap, effectiveGain, saving, domainGainSlider>>

\* What the "All elements" Reset sends to each element: the effective gain
\* computed when the popup was initialized, and the defaults of the rest.
AllResetSettings(gain) == [gain |-> gain, pan |-> D(0), mono |-> FALSE, flip |-> FALSE]

\* "#all-elements .element-reset" click: the controls show gain 1, and every
\* tracked element is sent the reset settings.
AllReset ==
    /\ pc = "ready"
    /\ allGain # Undefined
    /\ Len(pending) + elCount(frameMap) <= MaxPending
    /\ allGain' = Some(D(10))
    /\ elementGain' = ShowGain(elementGain, D(10))
    /\ pending' = pending \o RequestsToAll(frameMap, AllResetSettings(effectiveGain[1]))
    /\ hist' = Remember(hist, [kind |-> "allReset"])
    /\ UNCHANGED <<pageVars, pc, globalSettings, currentUrl, frameMap, effectiveGain, saving, domainGainSlider>>

\* The texts a number field can hold: "" when it is cleared (or holds no
\* number), and numerals.
Numerals == {"-2", "-1", "0", "0.5", "1", "2"}

\* The number a numeral denotes.
Numeral(text) ==
    CASE text = "-2" -> D(-20)
      [] text = "-1" -> D(-10)
      [] text = "0" -> D(0)
      [] text = "0.5" -> D(5)
      [] text = "1" -> D(10)
      [] text = "2" -> D(20)

\* +text: the empty text converts to 0.
ToNumber(text) == IF text = "" THEN D(0) ELSE Numeral(text)

\* parseFloat(text): the empty text has no number to parse.
parseFloat(text) == IF text = "" THEN NaN ELSE Numeral(text)

\* "" + number
NumberToText(number) == CHOOSE text \in Numerals : Numeral(text) = number

\* The min and max attributes of the pan number fields of popup.html.
PanMinText == "-1"
PanMaxText == "1"

\* What the pan number fields are left with when the user types.
PanTexts == {"", "-2", "0.5", "2"}

\* if (+this.value > +max) this.value = max; if (+this.value < +min) this.value = min
ClampedText(text) ==
    LET capped == IF ToNumber(text).tenths > ToNumber(PanMaxText).tenths THEN PanMaxText ELSE text
    IN  IF ToNumber(capped).tenths < ToNumber(PanMinText).tenths THEN PanMinText ELSE capped

\* What the Reset of the whole list would send.
ElementResetToEffective == AllResetSettings(getEffectiveGain)

\* What the Reset button of one element sends.
ElementResetSettings == [gain |-> D(10), pan |-> D(0), mono |-> FALSE, flip |-> FALSE]

\* ".element-reset" click of one element: its gain control shows 1 and it is
\* sent the reset settings.
ElementReset == ApplySettings({ElementResetSettings})

\* ".element-pan-num" input of one element: the text is clamped and
\* applySettings(fid, elid, {pan: parseFloat(this.value)}) called.
ElementPanNumberInput ==
    ApplySettings({[pan |-> parseFloat(ClampedText(text))] : text \in PanTexts})

\* "#all-elements .element-pan-num" input: the text is clamped and
\* applyPan(+this.value) sends {pan: parseFloat(value)} to every element.
AllPanNumberInput(text) ==
    /\ pc = "ready"
    /\ allGain # Undefined
    /\ Len(pending) + elCount(frameMap) <= MaxPending
    /\ pending' = pending \o
          RequestsToAll(frameMap, [pan |-> parseFloat(NumberToText(ToNumber(ClampedText(text))))])
    /\ hist' = Remember(hist, [kind |-> "allPan"])
    /\ UNCHANGED <<pageVars, pc, globalSettings, currentUrl, frameMap, effectiveGain, saving>>
    /\ UNCHANGED <<domainGainSlider, allGain, elementGain>>

\* ------------------------------------------------- the settings resolver

\* What the store may hold from earlier sessions.
StoredSettings ==
    {NoRecord,
     Some([globalGain |-> D(11), domainOverrides |-> Put(NoOverrides, "youtube.com", D(20))])}

\* A page without media, on a tab with a stored override, on one without, or
\* on one whose URL does not parse: only the settings handlers act.
InitResolver ==
    InitWith({"https://youtube.com/watch", "https://example.com/", ""},
             StoredSettings, BOOLEAN, {{}}, {Frames}, {2})

\* The global gain control is moved to 2, the domain gain control to 0 or 2.
NextResolver ==
    \/ LoadSettings
    \/ QueryTab
    \/ Discover
    \/ \E v \in {D(20)} : GlobalGainInput(v)
    \/ \E v \in Gains : DomainGainInput(v)
    \/ SaveDomainOverride
    \/ ClearDomainOverride

SpecResolver == InitResolver /\ [][NextResolver]_vars


\* Claim C1.  For every domain and every GlobalSettings the effective gain is
\* domainOverrides[domain] whenever the domain is a key of domainOverrides,
\* whatever the stored value (0 included), and globalGain otherwise.
C1_EffectiveGainIsOverrideWhenPresent ==
    LET domain == getDomain(currentUrl) IN
    getEffectiveGain = IF domain \in DOMAIN globalSettings.domainOverrides
                       THEN globalSettings.domainOverrides[domain]
                       ELSE globalSettings.globalGain

\* The last two operations were a save of an override for a domain that had
\* none and then a clear for the same domain.
SavedThenCleared ==
    /\ Len(hist) = 2
    /\ hist[1].kind = "save" /\ ~hist[1].had
    /\ hist[2].kind = "clear" /\ hist[2].domain = hist[1].domain

\* Claim C2.  Saving an override for a domain that has none and then clearing
\* it leaves the effective gain of that domain equal to globalGain.
C2_SaveThenClearGivesGlobalGain ==
    SavedThenCleared => EffectiveGainFor(globalSettings, hist[1].domain) = globalSettings.globalGain

\* C2 happens: the saved gain was one that would have shown (not 0, not globalGain).
C2_Witness ==
    /\ SavedThenCleared
    /\ pc = "ready"
    /\ Truthy(hist[1].gain)
    /\ hist[1].gain # globalSettings.globalGain

\* The tab URLs new URL() rejects.
UnparseableUrls == TabUrls \ ParseableUrls

\* Claim C13.  An unparseable URL resolves to the sentinel "unknown", and in
\* every reachable state the sentinel matches no stored override, so the
\* effective gain for an unparseable URL is globalGain.
C13_SentinelNeverMatches ==
    /\ \A url \in UnparseableUrls : getDomain(url) = "unknown"
    /\ "unknown" \notin DOMAIN globalSettings.domainOverrides
    /\ \A url \in UnparseableUrls :
          getEffectiveGainOf(globalSettings, url) = globalSettings.globalGain

\* Claim C14.  When the read of the store fails, or the store holds no
\* record, loading yields globalGain = 1.5 and no overrides, and the
\* initialization goes on to query the tab.
C14_ReadFailureGivesDefaults ==
    [][(pc = "loading" /\ pc' # "loading" /\ (~storeReads \/ storage = NoRecord)) =>
        /\ globalSettings' = [globalGain |-> D(15), domainOverrides |-> [d \in {} |-> D(0)]]
        /\ pc' = "querying"
      ]_vars

\* C14 happens: the store holds a record, the read failed, and the popup
\* finished its initialization on the defaults.
C14_Witness ==
    /\ ~storeReads
    /\ storage # NoRecord
    /\ storage[1].globalGain # D(15)
    /\ pc = "ready"
    /\ globalSettings.globalGain = D(15)
    /\ hist = <<>>

\* Claim C15.  When the write to the store fails during a save-override, a
\* clear-override or a global-gain change, the save does not take effect: the
\* GlobalSettings the session uses are those from before the action.  (After
\* a write that succeeds the store holds the session's settings.)
C15_FailedWriteLeavesSettings ==
    [][(pc # "loading" /\ storage' # Some(globalSettings')) => globalSettings' = globalSettings]_vars

\* The step is the click handler of Save Override, or of Clear Override.
SaveClicked == hist' # hist /\ Last(hist').kind = "save"
ClearClicked == hist' # hist /\ Last(hist').kind = "clear"

\* Claim C23.  Saving an override inserts or overwrites only the entry of the
\* current domain: globalGain and the override of every other domain are
\* unchanged, and the value stored is that of the domain gain control at the
\* time of the save.
C23_SaveTouchesOneEntry ==
    [][SaveClicked =>
        LET domain == getDomain(currentUrl)
            before == globalSettings.domainOverrides
            after == globalSettings'.domainOverrides
        IN  /\ globalSettings'.globalGain = globalSettings.globalGain
            /\ DOMAIN after = DOMAIN before \cup {domain}
            /\ \A other \in DOMAIN before \ {domain} : after[other] = before[other]
            /\ after[domain] = domainGainSlider
      ]_vars

\* C23 happens: with an override of 2 stored for youtube.com, the control was
\* moved to 0 on example.com and saved; both overrides are there.
C23_Witness ==
    /\ hist # <<>> /\ Last(hist).kind = "save" /\ Last(hist).domain = "example.com"
    /\ globalSettings.globalGain = D(11)
    /\ DOMAIN globalSettings.domainOverrides = {"youtube.com", "example.com"}
    /\ globalSettings.domainOverrides["youtube.com"] = D(20)
    /\ globalSettings.domainOverrides["example.com"] = D(0)

\* Claim C33.  Under every interleaving of the initialization steps and the
\* user's actions, Save Override stores the override under the hostname of
\* the active tab's URL, also when it is handled after the handlers are
\* registered and before the tab's URL has been read.
C33_SaveStoresUnderTabHostname ==
    [][SaveClicked =>
        /\ getDomain(tabUrl) \in DOMAIN globalSettings'.domainOverrides
        /\ DOMAIN globalSettings'.domainOverrides
              \subseteq DOMAIN globalSettings.domainOverrides \cup {getDomain(tabUrl)}
      ]_vars

\* Claim C24.  Clearing the override of a domain that has none is a no-op on
\* GlobalSettings: globalGain and every entry of domainOverrides are the same
\* before and after.
C24_ClearWithoutOverrideIsNoOp ==
    [][(ClearClicked /\ getDomain(currentUrl) \notin DOMAIN globalSettings.domainOverrides)
       => globalSettings' = globalSettings
      ]_vars

\* C24 happens: the first thing done on example.com, which has no override,
\* was a clear; the override of youtube.com is still there.
C24_Witness ==
    /\ Len(hist) = 1 /\ hist[1].kind = "clear" /\ hist[1].domain = "example.com"
    /\ currentUrl = "https://example.com/"
    /\ globalSettings.globalGain = D(11)
    /\ DOMAIN globalSettings.domainOverrides = {"youtube.com"}
    /\ globalSettings.domainOverrides["youtube.com"] = D(20)


\* ------------------------------------------------------ one element's graph

\* The values a caller may put in a partial SoundSettings.
GraphGains == {D(11), D(20)}
Pans == {D(-10)}

\* A value or undefined, and the object with the one property `name` or none.
Optional(S) == {Undefined} \cup {Some(x) : x \in S}
Property(name, v) == IF v = Undefined THEN <<>> ELSE [f \in {name} |-> v[1]]

Fields == {"gain", "pan", "mono", "flip"}

\* Every partial SoundSettings: a non-empty subset of the four fields.
PartialSettings ==
    {Property("gain", g) @@ Property("pan", p) @@ Property("mono", m) @@ Property("flip", f) :
        g \in Optional(GraphGains), p \in Optional(Pans),
        m \in Optional(BOOLEAN), f \in Optional(BOOLEAN)} \ {<<>>}

\* A page with one video, on a stereo or a mono output.
InitGraph == InitWith({"https://example.com/"}, {NoRecord}, {TRUE}, {{"v1"}}, {Frames}, {1, 2})

NextGraph ==
    \/ LoadSettings
    \/ QueryTab
    \/ Discover
    \/ ExecuteScript
    \/ ApplySettings(PartialSettings)

SpecGraph == InitGraph /\ [][NextGraph]_vars

\* The element a request of the history ran on (the page of SpecGraph loses
\* no element, so the query finds now what it found then).
TargetOf(op) == querySelector(op.req.fid, op.req.elid)

\* The history holds two applies that ran on the same element.
TwoApplies ==
    /\ Len(hist) = 2
    /\ \A i \in 1..2 : hist[i].kind = "apply" /\ hist[i].outcome = "fulfilled"
    /\ TargetOf(hist[1]) = TargetOf(hist[2])

\* The last operation was an apply that ran, with `field` in its update.
LastApplied(field) ==
    /\ hist # <<>>
    /\ Last(hist).kind = "apply" /\ Last(hist).outcome = "fulfilled"
    /\ field \in DOMAIN Last(hist).req.newSettings

\* The last two operations were applies on one element, the first with
\* `field` = a and the second with `field` = b.
AppliedInTurn(field, a, b) ==
    /\ TwoApplies
    /\ \A i \in 1..2 : field \in DOMAIN hist[i].req.newSettings
    /\ hist[1].req.newSettings[field] = a
    /\ hist[2].req.newSettings[field] = b

\* Claim C3.  After any sequence of applySettings calls on an element its
\* graph has been constructed exactly once: the first call constructs it and
\* no later call constructs or replaces a node.
C3_GraphConstructedOnce ==
    \A e \in Elems :
        /\ built[e] = IF el[e].ctx THEN 1 ELSE 0
        /\ el[e].ctx => el[e].ctxId = 1
        /\ (hist # <<>> /\ Last(hist).kind = "apply" /\ Last(hist).outcome = "fulfilled"
              /\ TargetOf(Last(hist)) = Some(e)) => el[e].ctx

\* C3 happens: two applies ran on the element and it has the one graph.
C3_Witness ==
    /\ TwoApplies
    /\ TargetOf(hist[2]) = Some("v1")
    /\ built["v1"] = 1

\* A graph as the popup's opening leaves it: not constructed yet, or
\* constructed and given nothing but the effective gain of the opening.
ReadBack(g) == RecordSnapshot(g).settings
FreshReadBack == ReadBack(NewGraph(hwChannels, 1))
Fresh(g) ==
    \/ ~g.ctx
    \/ /\ g.pan = D(0) /\ g.flipped = Undefined /\ g.conns = InitialConns
       /\ g.channelCount = g.originalChannels
       /\ g.gain = ToFloat32(getEffectiveGain)

\* The value the snapshot holds for a field when it holds the applied value.
AsRecorded(field, v) == IF field = "flip" THEN Some(v) ELSE v

\* Claim C4.  For every partial update applied to a freshly initialized
\* element, whatever the output's channel count, the recorded snapshot equals
\* the applied value for each field present in the update and keeps its
\* previous value for each field absent.
C4_SnapshotEqualsUpdate ==
    [][\A e \in Elems :
         (/\ hist' # hist
          /\ Last(hist').kind = "apply" /\ Last(hist').outcome = "fulfilled"
          /\ TargetOf(Last(hist')) = Some(e)
          /\ Fresh(el[e]))
         => LET s == Last(hist').req.newSettings
                before == IF el[e].ctx THEN el[e].settings ELSE FreshReadBack
            IN  \A f \in Fields :
                  el'[e].settings[f] = IF f \in DOMAIN s THEN AsRecorded(f, s[f]) ELSE before[f]
      ]_vars

\* The connections the signal of the element travels: those leaving a node
\* that the source reaches.
RECURSIVE ReachedFrom(_, _)
ReachedFrom(nodes, conns) ==
    LET next == nodes \cup {c[3] : c \in {c \in conns : c[1] \in nodes}} IN
    IF next = nodes THEN nodes ELSE ReachedFrom(next, conns)
SignalPath(conns) == {c \in conns : c[1] \in ReachedFrom({"source"}, conns)}

UnflippedPath == InitialConns
FlippedPath == {Conn("source", "gain"), Conn("gain", "pan")} \cup FlippedRouting

\* Claim C5 as stated.  Applying {flip: true} and then {flip: true} again
\* restores the unflipped routing: the panner feeds the output directly.
C5_FlipTwiceRestoresUnflipped ==
    \A e \in Elems :
        (AppliedInTurn("flip", TRUE, TRUE) /\ TargetOf(hist[2]) = Some(e))
        => SignalPath(el[e].conns) = UnflippedPath

\* Claim C5 as amended.  flip is set, not toggled: {flip: true} applied twice
\* leaves the flipped signal path that one application gives, and {flip: true}
\* followed by {flip: false} restores the signal path of an element that was
\* never flipped.
C5_FlipThenUnflipRestoresPath ==
    \A e \in Elems :
        /\ (AppliedInTurn("flip", TRUE, TRUE) /\ TargetOf(hist[2]) = Some(e))
           => SignalPath(el[e].conns) = FlippedPath
        /\ (AppliedInTurn("flip", TRUE, FALSE) /\ TargetOf(hist[2]) = Some(e))
           => SignalPath(el[e].conns) = UnflippedPath

\* C5 happens: flip was set and then cleared on the element.
C5_Witness ==
    /\ AppliedInTurn("flip", TRUE, FALSE)
    /\ TargetOf(hist[2]) = Some("v1")
    /\ el["v1"].flipped = Some(FALSE)

\* The connections leaving a node.
Leaving(conns, node) == {c \in conns : c[1] = node}

\* Claim C6.  After an apply with flip = true the path to the output is
\* panner -> splitter -> merger -> output with splitter output 0 on merger
\* input 1 and splitter output 1 on merger input 0, and the panner is not
\* connected to the output; after an apply with flip = false the panner is
\* connected to the output and the merger is not.
C6_FlipRouting ==
    \A e \in Elems :
        (LastApplied("flip") /\ TargetOf(Last(hist)) = Some(e)) =>
            LET conns == el[e].conns IN
            IF Last(hist).req.newSettings.flip
            THEN /\ Leaving(conns, "pan") = {Conn("pan", "split")}
                 /\ Leaving(conns, "split") = {ConnAt("split", 0, "merge", 1), ConnAt("split", 1, "merge", 0)}
                 /\ Leaving(conns, "merge") = {Conn("merge", "destination")}
            ELSE /\ Leaving(conns, "pan") = {Conn("pan", "destination")}
                 /\ Leaving(conns, "merge") = {}

\* C6 happens: the element was unflipped and then flipped.
C6_Witness ==
    /\ AppliedInTurn("flip", FALSE, TRUE)
    /\ el["v1"].flipped = Some(TRUE)

\* Claim C7.  Every flip rewire fully disconnects the previous routing: after
\* flip applications ending with flip = false the connections of the graph
\* are those present right after initialization, with no splitter -> merger
\* connection left over.
C7_UnflipLeavesInitialConnections ==
    \A e \in Elems :
        (LastApplied("flip") /\ TargetOf(Last(hist)) = Some(e) /\ ~Last(hist).req.newSettings.flip)
        => el[e].conns = InitialConns

\* Claim C8.  The original output channel count is recorded at initialization
\* and never overwritten, and {mono: true} followed by {mono: false} leaves
\* the output channel count equal to it.
C8_MonoReversible ==
    \A e \in Elems :
        /\ el[e].ctx => el[e].originalChannels = hwChannels
        /\ (AppliedInTurn("mono", TRUE, FALSE) /\ TargetOf(hist[2]) = Some(e))
           => el[e].channelCount = hwChannels

\* C8 happens: on a stereo output the element went mono and came back.
C8_Witness ==
    /\ AppliedInTurn("mono", TRUE, FALSE)
    /\ TargetOf(hist[2]) = Some("v1")
    /\ hwChannels = 2
    /\ el["v1"].channelCount = 2

\* The nodes with a connection into node `to`.
Feeding(conns, to) == {c[1] : c \in {d \in conns : d[3] = to}}

\* Claim C31.  In every state of an element's graph exactly one node is
\* connected to the output: the panner when the flip flag is not true, the
\* merger when it is true; and the flag is true exactly when the panner feeds
\* the splitter and the merger feeds the output.
C31_OneNodeFeedsOutput ==
    \A e \in Elems :
        el[e].ctx =>
            /\ Feeding(el[e].conns, "destination") =
                  (IF el[e].flipped = Some(TRUE) THEN {"merge"} ELSE {"pan"})
            /\ (el[e].flipped = Some(TRUE)) <=>
                  (/\ Conn("pan", "split") \in el[e].conns
                   /\ Conn("merge", "destination") \in el[e].conns)

\* C31 happens: the element was flipped and then unflipped; the splitter
\* still feeds the merger, and only the panner feeds the output.
C31_Witness ==
    /\ el["v1"].ctx
    /\ el["v1"].flipped = Some(FALSE)
    /\ ConnAt("split", 0, "merge", 1) \in el["v1"].conns
    /\ Feeding(el["v1"].conns, "destination") = {"pan"}
    /\ Feeding(el["v1"].conns, "split") = {}

\* Claim C27.  After every successful apply the recorded snapshot is a
\* complete normalized record: gain and pan are numbers and mono and flip are
\* booleans, also for an element to which flip has never been applied.
C27_SnapshotIsNormalized ==
    \A e \in Elems :
        el[e].ctx =>
            /\ DOMAIN el[e].settings = Fields
            /\ el[e].settings.gain.tenths \in Int
            /\ el[e].settings.pan.tenths \in Int
            /\ el[e].settings.mono \in BOOLEAN
            /\ el[e].settings.flip \in {Some(TRUE), Some(FALSE)}

\* ------------------------------------------------------------ broadcasts

\* A page with three media elements in two frames, any of which may vanish.
InitBroadcast == InitWith({"https://example.com/"}, {NoRecord}, {TRUE}, {Elems}, {Frames}, {2})

NextBroadcast ==
    \/ LoadSettings
    \/ QueryTab
    \/ Discover
    \/ ExecuteScript
    \/ \E e \in Elems : RemoveElement(e)
    \/ \E v \in Gains : AllGainInput(v)
    \/ \E v \in Gains : DomainGainInput(v)

SpecBroadcast == InitBroadcast /\ [][NextBroadcast]_vars


\* The tracked elements still in the page.
TrackedPresent == {e \in present : <<frameOf(e), attr[e]>> \in Tracked}

\* Claim C9.  A broadcast of a gain to the tracked elements, one of which has
\* vanished, still applies it to each of the others, wherever the vanished
\* element sits in the iteration order: once every request has run, each
\* tracked element still in the page holds the gain last broadcast.
C9_BroadcastReachesTheOthers ==
    (pc = "ready" /\ pending = <<>> /\ allGain # Undefined)
    => \A e \in TrackedPresent : el[e].ctx /\ el[e].gain = ToFloat32(allGain[1])

\* C9 happens: the first element of the iteration vanished before a broadcast
\* of another gain, which the two others received.
C9_Witness ==
    /\ pc = "ready" /\ pending = <<>>
    /\ allGain = Some(D(20))
    /\ elCount(frameMap) = 3
    /\ \E e \in Elems \ present :
         /\ RequestsToAll(frameMap, <<>>)[1].elid = attr[e]
         /\ el[e].ctx /\ el[e].gain # D(20)
    /\ Cardinality(TrackedPresent) = 2
    /\ \A e \in TrackedPresent : el[e].ctx /\ el[e].gain = D(20)

\* Claim C10.  applySettings addressed to an identifier that matches no
\* element of the frame ends in failure, constructs no graph and changes no
\* graph state or snapshot of any element.
C10_NoMatchChangesNothing ==
    [][(/\ pending # <<>>
        /\ pending' = Tail(pending)
        /\ Matching(Head(pending).fid, Head(pending).elid) = <<>>)
       => /\ Last(hist').kind = "apply"
          /\ Last(hist').req = Head(pending)
          /\ Last(hist').outcome = "rejected"
          /\ el' = el
          /\ built' = built
      ]_vars

\* C10 happens: a request was rejected in a page whose other elements have graphs.
C10_Witness ==
    /\ hist # <<>>
    /\ Last(hist).kind = "apply" /\ Last(hist).outcome = "rejected"
    /\ \E e \in present : el[e].ctx /\ el[e].gain = D(20)

\* The properties of the elements after one request of a queue ran.
RunOne(page, req) ==
    LET found == querySelector(req.fid, req.elid) IN
    IF found = Undefined THEN page ELSE ScriptRun(page, found[1], req.newSettings)

\* The properties of the elements once the requests of a queue have run, one
\* after the other in the order of the queue, on the page as it is.
RECURSIVE Drain(_, _)
Drain(page, queue) ==
    IF queue = <<>> THEN page
    ELSE CHOOSE end \in {Drain(next, Tail(queue)) : next \in {RunOne(page, Head(queue))}} : TRUE

\* What the requests issued and not yet run lead to, taken in the order issued.
Expected == Drain([el |-> el, built |-> built], pending).el

\* A request leaves the queue: a script runs.
ScriptRuns == pending # <<>> /\ Len(pending') = Len(pending) - 1

SharedSettings ==
    {[gain |-> D(20)],
     [mono |-> TRUE, flip |-> TRUE],
     [gain |-> D(11), pan |-> D(-10), flip |-> FALSE]}

\* Claim C17.  Applying the same partial settings to two distinct elements A
\* and B gives the same graphs and snapshots whether A is processed before B
\* or B before A.
C17_ApplyCommutes ==
    \A a, b \in TrackedPresent :
        a # b =>
            \A s \in SharedSettings :
                LET page == [el |-> el, built |-> built] IN
                ScriptRun(ScriptRun(page, a, s), b, s) = ScriptRun(ScriptRun(page, b, s), a, s)

\* C17 happens: the same settings were applied to two distinct elements, one
\* after the other, and both hold them.
C17_Witness ==
    /\ Len(hist) = 2
    /\ \A i \in 1..2 : hist[i].kind = "apply" /\ hist[i].outcome = "fulfilled"
    /\ hist[1].req.newSettings = hist[2].req.newSettings
    /\ TargetOf(hist[1]) # Undefined /\ TargetOf(hist[2]) # Undefined
    /\ TargetOf(hist[1]) # TargetOf(hist[2])
    /\ el[TargetOf(hist[1])[1]].settings = el[TargetOf(hist[2])[1]].settings
    /\ el[TargetOf(hist[1])[1]].gain = D(20)

\* ------------------------------------------- settings on a page with media

\* A page with a video and an audio element in its top frame and a stored
\* override for the tab's domain: the settings handlers act on tracked
\* elements.
InitLive ==
    InitWith({"https://youtube.com/watch"},
             {Some([globalGain |-> D(11), domainOverrides |-> Put(NoOverrides, "youtube.com", D(20))])},
             {TRUE}, {{"v1", "a1"}}, {{0}}, {2})

\* The global gain control is moved to 0, the domain gain control to 2.
NextLive ==
    \/ LoadSettings
    \/ QueryTab
    \/ Discover
    \/ ExecuteScript
    \/ \E v \in {D(0)} : GlobalGainInput(v)
    \/ \E v \in {D(20)} : DomainGainInput(v)
    \/ SaveDomainOverride
    \/ ClearDomainOverride

SpecLive == InitLive /\ [][NextLive]_vars

\* The same page without a stored record: the global gain is changed and the
\* "All elements" Reset pressed.
InitReset ==
    InitWith({"https://youtube.com/watch"}, {NoRecord}, {TRUE}, {{"v1", "a1"}}, {{0}}, {2})

NextReset ==
    \/ LoadSettings
    \/ QueryTab
    \/ Discover
    \/ ExecuteScript
    \/ \E v \in {D(20)} : GlobalGainInput(v)
    \/ AllReset

SpecReset == InitReset /\ [][NextReset]_vars

\* The step is the handler that records `kind` in the history.
Handled(kind) == hist' # hist /\ Last(hist').kind = kind

\* The request with `settings` to (fid, elid) is among those from position n on.
IssuedWith(n, queue, fid, elid, settings) ==
    \E i \in n..Len(queue) : queue[i] = [fid |-> fid, elid |-> elid, newSettings |-> settings]

\* Claim C21.  After Clear Override on the current domain the domain has no
\* override and an apply of globalGain has been issued to every tracked
\* element.
C21_ClearAppliesGlobalGain ==
    [][Handled("clear") =>
        /\ getDomain(currentUrl) \notin DOMAIN globalSettings'.domainOverrides
        /\ \A t \in Tracked :
              IssuedWith(Len(pending) + 1, pending', t[1], t[2], [gain |-> globalSettings'.globalGain])
      ]_vars

\* C21 happens: the stored override of 2 was cleared and both elements, which
\* had the override, hold the global gain.
C21_Witness ==
    /\ hist # <<>> /\ Last(hist).kind = "apply" /\ Last(hist).outcome = "fulfilled"
    /\ Len(hist) = 2 /\ hist[1].kind = "apply"
    /\ pending = <<>>
    /\ storage # NoRecord
    /\ storage[1].domainOverrides = NoOverrides
    /\ globalSettings = storage[1]
    /\ globalSettings.globalGain = D(11)
    /\ \A e \in {"v1", "a1"} : el[e].ctx /\ el[e].gain = ToFloat32(D(11))

\* Claim C22.  The all-elements Reset reverts to the saved settings: whenever
\* it is pressed, every tracked element is sent gain = the effective gain of
\* the settings as they are then, pan = 0, mono = false and flip = false.
C22_ResetSendsCurrentEffectiveGain ==
    [][Handled("allReset") =>
        \A t \in Tracked :
            IssuedWith(Len(pending) + 1, pending', t[1], t[2],
                       [gain |-> getEffectiveGain, pan |-> D(0), mono |-> FALSE, flip |-> FALSE])
      ]_vars

\* The requests the step issued, in the order issued.
IssuedByStep == SubSeq(pending', Len(pending) + 1, Len(pending'))

\* Claim C32.  After any popup action that addresses all elements (a gain
\* change, clear override, the all-elements reset, the initial apply at
\* popup open) the gain shown in each element's control equals the gain the
\* action last sent to that element.
C32_DisplayedGainIsGainSent ==
    [][(Len(pending') > Len(pending)) =>
        /\ Len(IssuedByStep) = Len(elementGain')
        /\ \A k \in 1..Len(IssuedByStep) :
              /\ IssuedByStep[k].elid = RequestsToAll(frameMap', <<>>)[k].elid
              /\ "gain" \in DOMAIN IssuedByStep[k].newSettings
              /\ elementGain'[k] = IssuedByStep[k].newSettings.gain
      ]_vars

C28_DomainGainIsLiveOnly ==
    [][Handled("domainGain") =>
        /\ globalSettings' = globalSettings
        /\ storage' = storage
        /\ \A t \in Tracked :
              IssuedWith(Len(pending) + 1, pending', t[1], t[2], [gain |-> domainGainSlider'])
      ]_vars

\* C28 happens: after the override was cleared the control was moved to 2 on
\* a page with two tracked elements; the domain still has no override, in
\* memory and in the store, and the effective gain is still 1.1.
C28_Witness ==
    /\ hist # <<>> /\ Last(hist).kind = "domainGain"
    /\ pc = "ready"
    /\ elCount(frameMap) = 2
    /\ domainGainSlider = D(20)
    /\ globalSettings = [globalGain |-> D(11), domainOverrides |-> NoOverrides]
    /\ storage = Some(globalSettings)
    /\ Len(pending) >= 2
    /\ pending[Len(pending)].newSettings = [gain |-> D(20)]

\* ------------------------------------------------- the popup opened again

\* The gain a per-element gain control delivers.
ElementGains == {[gain |-> g] : g \in Gains}

\* A page with media in two frames, either of which may refuse the injected
\* scripts, with or without a stored override for the tab's domain; the popup
\* is opened, used on single elements, closed and opened again.
InitSession ==
    InitWith({"https://youtube.com/watch"},
             {NoRecord, Some([globalGain |-> D(11), domainOverrides |-> Put(NoOverrides, "youtube.com", D(20))])},
             {TRUE}, {{"v1", "v2"}, Elems}, SUBSET Frames, {2})

NextSession ==
    \/ LoadSettings
    \/ QueryTab
    \/ Discover
    \/ ExecuteScript
    \/ ApplySettings(ElementGains)
    \/ Reopen

SpecSession == InitSession /\ [][NextSession]_vars

\* The step is the end of initializePopup's discovery.
DiscoveryEnds == pc = "discovering" /\ pc' = "ready"

\* The media elements of frame f as the scan reports them.
Reported(f, inDom, a) ==
    LET media == MediaIn(f, inDom) IN
    [j \in 1..Len(media) |-> [elid |-> a[media[j]], type |-> tagName(media[j])]]

\* The request for `gain` to (fid, elid) is among those from position n on.
IssuedFrom(n, queue, fid, elid, gain) ==
    \E i \in n..Len(queue) :
        queue[i] = [fid |-> fid, elid |-> elid, newSettings |-> [gain |-> gain]]

\* Claim C11.  During discovery a frame whose script injection fails is left
\* out of the frame map, every frame that responds is recorded with its
\* elements, and initialization goes on: a control is built for each recorded
\* element and the effective gain is applied to it.
C11_FailedFrameLeftOut ==
    [][DiscoveryEnds =>
        /\ {frameMap'[i].fid : i \in 1..Len(frameMap')} = Frames \cap openFrames
        /\ Len(frameMap') = Cardinality(Frames \cap openFrames)
        /\ \A i \in 1..Len(frameMap') :
              [j \in 1..Len(frameMap'[i].els) |->
                  [elid |-> frameMap'[i].els[j].elid, type |-> frameMap'[i].els[j].type]]
              = Reported(frameMap'[i].fid, present', attr')
        /\ Len(elementGain') = elCount(frameMap')
        /\ \A t \in Tracked' : IssuedFrom(Len(pending) + 1, pending', t[1], t[2], getEffectiveGain')
      ]_vars

\* C11 happens: frame 0 refused the script, frame 1 was recorded and its
\* video received the gain, the video of frame 0 was never touched.
C11_Witness ==
    /\ pc = "ready"
    /\ openFrames = {1}
    /\ "v1" \in present
    /\ Len(frameMap) = 1 /\ frameMap[1].fid = 1 /\ Len(frameMap[1].els) = 1
    /\ el["v2"].ctx /\ ~el["v1"].ctx
    /\ attr["v1"] = NoId

\* Claim C12.  Discovery assigns an identifier only to an element that lacks
\* one: an element that has an identifier keeps it through every later step,
\* and a later scan reports the element under that identifier.
C12_IdentifierStable ==
    [][\A e \in Elems :
         attr[e] # NoId =>
            /\ attr'[e] = attr[e]
            /\ (DiscoveryEnds /\ e \in present /\ frameOf(e) \in openFrames)
               => <<frameOf(e), attr[e]>> \in Tracked'
      ]_vars

\* C12 happens: the scan of a second opening reported an element, which by
\* then had a snapshot, under the identifier the first scan gave it.
C12_Witness ==
    /\ pc = "ready"
    /\ attr["v1"] = RandomId("v1")
    /\ \E i \in 1..Len(frameMap) : \E j \in 1..Len(frameMap[i].els) :
         /\ frameMap[i].els[j].elid = RandomId("v1")
         /\ frameMap[i].els[j].settings # Undefined

\* Claim C18.  An apply targeted at one element (frame id, element id) changes
\* the graph state and snapshot of that element only: every step that changes
\* a graph or a snapshot is an apply that ran, and the graph and snapshot of
\* every element but its target, in the same or another frame, are unchanged.
C18_OnlyTargetChanges ==
    [][(el' # el \/ built' # built) =>
        /\ Last(hist').kind = "apply" /\ Last(hist').outcome = "fulfilled"
        /\ TargetOf(Last(hist')) # Undefined
        /\ \A o \in Elems \ {TargetOf(Last(hist'))[1]} : el'[o] = el[o] /\ built'[o] = built[o]
      ]_vars

\* C18 happens: an apply gave the video of frame 0 another gain than the
\* audio of the same frame and the video of frame 1 hold.
C18_Witness ==
    /\ hist # <<>>
    /\ Last(hist).kind = "apply" /\ Last(hist).outcome = "fulfilled"
    /\ TargetOf(Last(hist)) = Some("v1")
    /\ el["v1"].ctx /\ el["a1"].ctx /\ el["v2"].ctx
    /\ el["v1"].gain = D(0)
    /\ el["a1"].gain = D(20) /\ el["v2"].gain = D(15)

\* The entries of frameMap in iteration order, and the element of the k-th.
TrackedEntries == Flatten([i \in 1..Len(frameMap) |-> frameMap[i].els])
ElementAt(k) ==
    LET req == RequestsToAll(frameMap, <<>>)[k] IN querySelector(req.fid, req.elid)

\* Claim C29.  Discovery is a read-only probe with respect to audio state: a
\* scan constructs no graph and changes no graph state or snapshot; it only
\* assigns missing identifiers and reports each element's kind, playing
\* status and previously recorded snapshot.
C29_DiscoveryReadsOnly ==
    [][DiscoveryEnds =>
        /\ el' = el
        /\ built' = built
        /\ \A e \in Elems : attr'[e] # attr[e] => attr[e] = NoId
        /\ \A i \in 1..Len(frameMap') :
              LET media == MediaIn(frameMap'[i].fid, present) IN
              /\ Len(frameMap'[i].els) = Len(media)
              /\ \A j \in 1..Len(media) :
                    /\ frameMap'[i].els[j].type = tagName(media[j])
                    /\ frameMap'[i].els[j].isPlaying = (media[j] \in playing)
                    /\ frameMap'[i].els[j].settings =
                          IF el[media[j]].ctx THEN Some(el[media[j]].settings) ELSE Undefined
      ]_vars

\* C29 happens: a second scan found the video of frame 0 with its graph and
\* its gain of 2, reported that snapshot and left the graph as it was.
C29_Witness ==
    /\ pc = "ready"
    /\ Len(pending) = elCount(frameMap)
    /\ el["v1"].ctx /\ el["v1"].gain = D(20) /\ built["v1"] = 1
    /\ getEffectiveGain # D(20)
    /\ \E k \in 1..Len(TrackedEntries) :
         /\ TrackedEntries[k].elid = attr["v1"]
         /\ TrackedEntries[k].settings = Some(el["v1"].settings)

\* Claim C19.  A per-element gain adjustment persists for the page load: when
\* the popup is opened again the element's control shows the gain of the
\* snapshot the discovery returned and, once the applies of the initialization
\* have run (no control can have been used before that: nothing is waiting
\* when a control of this popup is used), the gain node still holds that gain.
C19_AdjustmentSurvivesReopen ==
    [][(pc = "ready" /\ pending # <<>> /\ pending' = <<>>) =>
        \A k \in 1..Len(TrackedEntries) :
            TrackedEntries[k].settings # Undefined =>
                /\ elementGain'[k] = TrackedEntries[k].settings[1].gain
                /\ el'[ElementAt(k)[1]].gain = TrackedEntries[k].settings[1].gain
      ]_vars

\* Claim C20.  When initialization finishes with at least one discovered
\* element, an apply of the effective gain for the tab's domain has been
\* issued to every element of every recorded frame.
C20_EffectiveGainIssuedToAll ==
    [][(DiscoveryEnds /\ elCount(frameMap') > 0) =>
        \A i \in 1..Len(frameMap') : \A j \in 1..Len(frameMap'[i].els) :
            IssuedFrom(Len(pending) + 1, pending', frameMap'[i].fid, frameMap'[i].els[j].elid,
                       EffectiveGainFor(globalSettings, getDomain(tabUrl)))
      ]_vars

\* C20 happens: with an override stored for the tab's domain, the requests
\* waiting after the initialization carry the override to all three elements.
C20_Witness ==
    /\ pc = "ready"
    /\ "youtube.com" \in DOMAIN globalSettings.domainOverrides
    /\ elCount(frameMap) = 3
    /\ Len(pending) = 3
    /\ \A i \in 1..3 : pending[i].newSettings = [gain |-> D(20)]
    /\ {pending[i].elid : i \in 1..3} = Ids

\* ------------------------------------- the pan fields and the element reset

\* A page with a video and an audio element in one frame, on a tab with or
\* without a stored override: the pan number fields are typed into and the
\* Reset of one element is pressed.
InitControls ==
    InitWith({"https://youtube.com/watch"}, StoredSettings, {TRUE}, {{"v1", "a1"}}, {{0}}, {2})

NextControls ==
    \/ LoadSettings
    \/ QueryTab
    \/ Discover
    \/ ExecuteScript
    \/ ElementReset
    \/ ElementPanNumberInput
    \/ \E text \in PanTexts : AllPanNumberInput(text)

SpecControls == InitControls /\ [][NextControls]_vars

\* The requests that reached applySettings with a pan: those waiting and
\* those remembered as run.
PanRequests ==
    {pending[i] : i \in {j \in 1..Len(pending) : "pan" \in DOMAIN pending[j].newSettings}}
    \cup {hist[i].req : i \in {j \in 1..Len(hist) :
                                  /\ hist[j].kind = "apply"
                                  /\ "pan" \in DOMAIN hist[j].req.newSettings}}

\* Claim C25.  Every pan value that reaches applySettings from the numeric
\* pan fields, of one element and of all elements, is a number within the
\* field's range [-1, 1].
C25_PanWithinRange ==
    \A r \in PanRequests :
        /\ r.newSettings.pan # NaN
        /\ r.newSettings.pan.tenths >= ToNumber(PanMinText).tenths
        /\ r.newSettings.pan.tenths <= ToNumber(PanMaxText).tenths

\* The step is the Reset button of one element: an apply called by the popup
\* itself with all four settings.
ElementResetClicked ==
    /\ pending' = pending
    /\ Handled("apply")
    /\ DOMAIN Last(hist').req.newSettings = Fields

\* Claim C30.  The Reset button of one element sends gain = 1, pan = 0,
\* mono = false and flip = false to that element only, whatever the global
\* gain and the override are, and leaves every other element as it was.
C30_ElementResetSendsDefaults ==
    [][ElementResetClicked =>
        LET req == Last(hist').req
            target == querySelector(req.fid, req.elid)[1]
        IN  /\ req.newSettings = [gain |-> D(10), pan |-> D(0), mono |-> FALSE, flip |-> FALSE]
            /\ el'[target].ctx
            /\ el'[target].gain = D(10)
            /\ el'[target].pan = D(0)
            /\ el'[target].channelCount = el'[target].originalChannels
            /\ el'[target].flipped = Some(FALSE)
            /\ \A o \in Elems \ {target} : el'[o] = el[o] /\ built'[o] = built[o]
      ]_vars

\* C30 happens: on a tab with an override of 2 the video was reset to gain 1
\* while the audio element keeps the override.
C30_Witness ==
    /\ hist # <<>>
    /\ Last(hist).kind = "apply" /\ Last(hist).outcome = "fulfilled"
    /\ DOMAIN Last(hist).req.newSettings = Fields
    /\ Last(hist).req.elid = attr["v1"]
    /\ getEffectiveGain = D(20)
    /\ el["v1"].ctx /\ el["v1"].gain = D(10) /\ el["v1"].flipped = Some(FALSE)
    /\ el["a1"].ctx /\ el["a1"].gain = D(20) /\ el["a1"].flipped = Undefined

\* ------------------------------------------- overlapping global gain saves

\* A page with a video and an audio element in one frame, on a tab with or
\* without a stored override: the global gain is changed again while earlier
\* changes still await their write, and the store accepts the writes.
InitOverlap ==
    InitWith({"https://youtube.com/watch"}, StoredSettings, {TRUE}, {{"v1", "a1"}}, {{0}}, {2})

NextOverlap ==
    \/ LoadSettings
    \/ QueryTab
    \/ Discover
    \/ ExecuteScript
    \/ \E v \in Gains : GlobalGainChanged(v)
    \/ \E ok \in {TRUE} : StoreWrite(ok)
    \/ GlobalGainSaved

SpecOverlap == InitOverlap /\ [][NextOverlap]_vars

\* The requests to element elid that are remembered as run or still waiting,
\* oldest first.
RequestsTo(elid) ==
    SelectSeq([i \in 1..Len(hist) |->
                   IF hist[i].kind = "apply" THEN hist[i].req ELSE [elid |-> NoId]]
              \o pending,
              LAMBDA r : r.elid = elid)

\* Every handler has run to its end.
HandlersFinished == saving.writes = <<>> /\ saving.settled = 0

Init == InitWith(TabUrls, StoredSettings, BOOLEAN, SUBSET Elems, SUBSET Frames, {1, 2})

Next ==
    \/ LoadSettings
    \/ QueryTab
    \/ Discover
    \/ ExecuteScript
    \/ \E e \in Elems : RemoveElement(e)
    \/ \E v \in Gains : GlobalGainInput(v)
    \/ \E v \in Gains : DomainGainInput(v)
    \/ SaveDomainOverride
    \/ ClearDomainOverride
    \/ \E v \in Gains : AllGainInput(v)
    \/ ApplySettings(PartialSettings)
    \/ Reopen
    \/ AllReset
    \/ ElementReset
    \/ ElementPanNumberInput
    \/ \E text \in PanTexts : AllPanNumberInput(text)
    \/ \E v \in Gains : GlobalGainChanged(v)
    \/ \E ok \in BOOLEAN : StoreWrite(ok)
    \/ GlobalGainSaved

Spec == Init /\ [][Next]_vars

=============================================================================
